---- MODULE Spec2Model ----
(***************************************************************************)
(* Pattern reducibility checker: the DPLL solver (dpll.py), the two        *)
(* reductions to CNF-SAT (coloring.py, aux_graph.py), the coloring         *)
(* quotient (utils.py, reductor.py) and the fixed-point engine             *)
(* (reductor.py).                                                          *)
(***************************************************************************)
EXTENDS Integers, Sequences, FiniteSets, TLC

VARIABLES
    input,      \* the problem instance handed to the component under study
    clauses,    \* CNFSAT._clauses of the CNFSAT object whose dpll() is running
    stack,      \* dpll() frames waiting for their first recursive call
    pc,         \* position of the running call
    result,     \* value returned by the outermost call ("none" while running)
    raised,     \* the exception that ended the call ("none" when it returned)
    policy,     \* how the solver resolves the picks Python leaves open, in a pattern
    color_repr_map,         \* PatternReducibility.color_repr_map
    repr_map,               \* PatternReducibility.repr_map
    repr_to_red,            \* PatternReducibility.repr_to_red
    iter,                   \* is_pattern_reducible: i
    new,                    \* is_pattern_reducible: new
    found_changed,          \* is_pattern_reducible: found_changed
    found_non_reducible,    \* is_pattern_reducible: found_non_reducible
    todo,                   \* keys of repr_to_red the running pass has yet to visit
    calls                   \* completed calls of is_pattern_reducible

solverVars == <<clauses, stack>>

quotientVars == <<color_repr_map, repr_map>>

loopVars == <<iter, new, found_changed, found_non_reducible, todo>>

engineVars == <<quotientVars, repr_to_red, loopVars, calls>>

vars == <<input, clauses, stack, pc, result, raised, policy, engineVars>>

\* ------------------------------------------------------------------ bounds
NumVars == 2        \* propositional variables x_1 .. x_NumVars of a raw CNF input
MaxClauses == 3     \* clauses of a raw CNF input
MaxClauseLen == 2   \* literals of one clause of a raw CNF input
MaxVertex == 4      \* vertices 1 .. MaxVertex of a pseudo-graph given to NCPQMatching
MaxColorVertices == 4   \* vertices 0 .. n-1 of a graph given to ThreeColoration
MaxK == 3           \* outgoing vertices of a pattern
MaxSyms == 2        \* symmetries listed by a pattern
MaxCalls == 2       \* calls of is_pattern_reducible on one instance
MaxLineVertices == 3    \* vertices of the line graphs of the small patterns

\* ------------------------------------------------------------ generic helpers
Neg(lit) == 0 - lit

SetMin(S) == CHOOSE x \in S : \A y \in S : x <= y

SetMax(S) == CHOOSE x \in S : \A y \in S : x >= y

\* The subsets of U with at most n elements.
RECURSIVE SubsetsUpTo(_, _)
SubsetsUpTo(U, n) ==
    IF n = 0 THEN {{}}
    ELSE LET smaller == SubsetsUpTo(U, n - 1)
         IN  smaller \cup {S \cup {x} : S \in smaller, x \in U}

\* ------------------------------------------------------------------ dpll.py
\* CNFSAT._clauses is a Python list of sets of literals. dpll() reads it only
\* through emptiness, membership of the empty clause, the clauses of length 1,
\* the union of the clauses, and filters and maps over every clause, so the
\* model keeps the set of its clauses. The order of the list decides one thing,
\* the clause _find_unit_literal meets first; in the reductions that order
\* comes out of the iteration of Python sets, so the model lets the unit
\* literal be the literal of any clause of length 1.

\* CNFSAT._literals: every literal present in the formula.
Literals(cl) == UNION cl

\* CNFSAT._find_unit_literal: the literals it may return (none: it returns None).
UnitLiterals(cl) == UNION {c \in cl : Cardinality(c) = 1}

\* CNFSAT._find_pure_literal: the literals it may return (none: it returns None).
PureLiterals(cl) ==
    LET lits == Literals(cl)
    IN  {lit \in lits : Neg(lit) \notin lits}

\* _unit_propagate without the removal of the negated literal from the clauses
\* that stay.
UnitPropagateKeepsNegation(cl, lit) == {d \in cl : lit \notin d}

\* CNFSAT._unit_propagate
UnitPropagate(cl, lit) == {c \ {Neg(lit)} : c \in {d \in cl : lit \notin d}}

\* CNFSAT._pure_literal_assign
PureLiteralAssign(cl, lit) == {c \in cl : lit \notin c}

\* A set's iteration order and set.pop() are left open by Python. A policy fixes,
\* for one run, which literal the picks return: the least or the greatest, for
\* the two simplification loops and for the branching literal.
Policies == [simplify : {"min", "max"}, branch : {"min", "max"}]

Pick(S, how) == IF how = "min" THEN SetMin(S) ELSE SetMax(S)

\* dpll(), lines 100-103: the unit propagation loop.
RECURSIVE UnitLoop(_, _)
UnitLoop(cl, pol) ==
    IF UnitLiterals(cl) = {} THEN cl
    ELSE UnitLoop(UnitPropagate(cl, Pick(UnitLiterals(cl), pol.simplify)), pol)

\* dpll(), lines 106-109: the pure literal loop.
RECURSIVE PureLoop(_, _)
PureLoop(cl, pol) ==
    IF PureLiterals(cl) = {} THEN cl
    ELSE PureLoop(PureLiteralAssign(cl, Pick(PureLiterals(cl), pol.simplify)), pol)

\* CNFSAT.dpll as a function of the clauses, under one policy.
RECURSIVE Dpll(_, _)
Dpll(cl, pol) ==
    IF cl = {} THEN TRUE
    ELSE IF {} \in cl THEN FALSE
    ELSE LET simplified == PureLoop(UnitLoop(cl, pol), pol)
         IN  IF simplified = {} THEN TRUE
             ELSE IF {} \in simplified THEN FALSE
             ELSE LET lit == Pick(Literals(simplified), pol.branch)
                  IN  \/ Dpll(simplified \cup {{lit}}, pol)
                      \/ Dpll(simplified \cup {{Neg(lit)}}, pol)

\* The two terminal tests of dpll(): "T", "F" or "open".
Terminal(cl) ==
    IF cl = {} THEN "T" ELSE IF {} \in cl THEN "F" ELSE "open"

\* dpll(), lines 92-97: the terminal tests on entry. A call that returns leaves
\* its CNFSAT object to the garbage collector: the model empties `clauses`.
DpllEnter ==
    /\ pc = "enter"
    /\ IF Terminal(clauses) = "open"
       THEN /\ pc' = "unit"
            /\ UNCHANGED <<clauses, result>>
       ELSE /\ pc' = "return"
            /\ result' = (Terminal(clauses) = "T")
            /\ clauses' = {}
    /\ UNCHANGED <<input, stack, raised, policy, engineVars>>

\* dpll(), lines 100-103: one turn of the unit propagation loop.
DpllUnit ==
    /\ pc = "unit"
    /\ \E lit \in UnitLiterals(clauses) : clauses' = UnitPropagate(clauses, lit)
    /\ UNCHANGED <<input, stack, pc, result, raised, policy, engineVars>>

\* dpll(), lines 103-106: no unit literal is left; the pure literal loop starts.
DpllUnitEnd ==
    /\ pc = "unit"
    /\ UnitLiterals(clauses) = {}
    /\ pc' = "pure"
    /\ UNCHANGED <<input, clauses, stack, result, raised, policy, engineVars>>

\* dpll(), lines 106-109: one turn of the pure literal loop, with any pure literal.
DpllPure ==
    /\ pc = "pure"
    /\ \E lit \in PureLiterals(clauses) : clauses' = PureLiteralAssign(clauses, lit)
    /\ UNCHANGED <<input, stack, pc, result, raised, policy, engineVars>>

\* dpll(), lines 113-116: the pure literal loop ends and the terminal tests are
\* made again.
DpllRetest ==
    /\ pc = "pure"
    /\ PureLiterals(clauses) = {}
    /\ IF Terminal(clauses) = "open"
       THEN /\ pc' = "branch"
            /\ UNCHANGED <<clauses, result>>
       ELSE /\ pc' = "return"
            /\ result' = (Terminal(clauses) = "T")
            /\ clauses' = {}
    /\ UNCHANGED <<input, stack, raised, policy, engineVars>>

\* dpll(), lines 122-126: any literal of the formula is chosen, and dpll() is
\* called on a copy of the clauses with the clause {lit} appended.
DpllBranch ==
    /\ pc = "branch"
    /\ \E lit \in Literals(clauses) :
          /\ stack' = Append(stack, [clauses |-> clauses, lit |-> lit])
          /\ clauses' = clauses \cup {{lit}}
    /\ pc' = "enter"
    /\ UNCHANGED <<input, result, raised, policy, engineVars>>

\* dpll(), lines 126-130: a recursive call has returned to its caller. True is
\* passed on; after False the caller appends {-lit} to its own clauses and
\* returns what dpll() on them returns.
DpllReturn ==
    /\ pc = "return"
    /\ stack # <<>>
    /\ LET top == stack[Len(stack)]
       IN  IF result = TRUE
           THEN /\ pc' = "return"
                /\ clauses' = {}
                /\ result' = result
           ELSE /\ pc' = "enter"
                /\ clauses' = top.clauses \cup {{Neg(top.lit)}}
                /\ result' = "none"
    /\ stack' = SubSeq(stack, 1, Len(stack) - 1)
    /\ UNCHANGED <<input, raised, policy, engineVars>>

\* The outermost dpll() returns to its caller.
DpllDone ==
    /\ pc = "return"
    /\ stack = <<>>
    /\ pc' = "done"
    /\ UNCHANGED <<input, clauses, stack, result, raised, policy, engineVars>>

DpllStep ==
    \/ DpllEnter
    \/ DpllUnit
    \/ DpllUnitEnd
    \/ DpllPure
    \/ DpllRetest
    \/ DpllBranch
    \/ DpllReturn
    \/ DpllDone

\* No PatternReducibility object exists in the runs of the solver and of the two
\* reductions on their own.
NoEngine ==
    /\ color_repr_map = <<>>
    /\ repr_map = <<>>
    /\ repr_to_red = <<>>
    /\ iter = 0
    /\ new = <<>>
    /\ found_changed = FALSE
    /\ found_non_reducible = FALSE
    /\ todo = {}
    /\ calls = 0

\* ------------------------------------------------- dpll() on a raw CNF formula
RawLiterals == {lit \in (0 - NumVars)..NumVars : lit # 0}

RawInputs == SubsetsUpTo(SubsetsUpTo(RawLiterals, MaxClauseLen), MaxClauses)

InitDpll ==
    /\ input \in RawInputs
    /\ clauses = input
    /\ stack = <<>>
    /\ pc = "enter"
    /\ result = "none"
    /\ raised = "none"
    /\ policy = "any"
    /\ NoEngine

SpecDpll == InitDpll /\ [][DpllStep]_vars

\* Truth-table satisfiability: some set of true variables makes every clause
\* hold a true literal.
Satisfiable(cl, variables) ==
    \E trueVars \in SUBSET variables :
        \A c \in cl :
            \E lit \in c :
                \/ lit > 0 /\ lit \in trueVars
                \/ lit < 0 /\ Neg(lit) \notin trueVars

\* C1: dpll() returns True exactly when some truth assignment satisfies every
\* clause of the formula it was given, whichever literals it picked on the way.
C1_DpllDecides ==
    /\ pc = "done" => result = Satisfiable(input, 1..NumVars)
    /\ (pc = "enter" /\ clauses = input /\ stack = <<>>) =>
           \A pol \in Policies : Dpll(input, pol) = Satisfiable(input, 1..NumVars)

\* dpll() has refuted a formula made of a unit clause and its negation.
C1_Witness ==
    /\ pc = "done"
    /\ input = {{1}, {Neg(1)}}
    /\ result = FALSE

\* ------------------------------------------------------------- aux_graph.py
\* A pseudo-graph is the dict of NCPQMatching.__init__: a function from its
\* vertices to their sets of neighbours.

\* NCPQMatching.__init__: self._edges, each edge as <<min(u, v), max(u, v)>>.
CanonicalEdge(u, v) == IF u <= v THEN <<u, v>> ELSE <<v, u>>

Edges(g) == UNION {{CanonicalEdge(u, v) : v \in g[u]} : u \in DOMAIN g}

\* _crossing with the sign test turned round.
CrossingWrongSign(edge1, edge2) ==
    LET u1 == edge1[1]
        v1 == edge1[2]
        u2 == edge2[1]
        v2 == edge2[2]
    IN  (u1 - u2) * (u1 - v2) * (v1 - u2) * (v1 - v2) > 0

\* NCPQMatching._crossing
Crossing(edge1, edge2) ==
    LET u1 == edge1[1]
        v1 == edge1[2]
        u2 == edge2[1]
        v2 == edge2[2]
    IN  (u1 - u2) * (u1 - v2) * (v1 - u2) * (v1 - v2) < 0

\* NCPQMatching._var
EdgeVar(g, u, v) ==
    LET bound == SetMax(DOMAIN g) + 1
        e == CanonicalEdge(u, v)
    IN  bound * e[1] + e[2]

\* The quasi-matching clauses without the test v != v2.
QuasiMatchingClausesAllPairs(g) ==
    UNION {UNION {{{Neg(EdgeVar(g, u, v)), Neg(EdgeVar(g, u, v2))} : v2 \in g[u]} :
                    v \in g[u]} :
             u \in DOMAIN g}

\* NCPQMatching._formula: the clauses of the CNFSAT instance it returns.
QuasiMatchingClauses(g) ==
    UNION {UNION {{{Neg(EdgeVar(g, u, v)), Neg(EdgeVar(g, u, v2))} : v2 \in g[u] \ {v}} :
                    v \in g[u]} :
             u \in DOMAIN g}

PerfectClauses(g) == {{EdgeVar(g, u, v) : v \in g[u]} : u \in DOMAIN g}

NonCrossingClauses(g) ==
    {{Neg(EdgeVar(g, p[1][1], p[1][2])), Neg(EdgeVar(g, p[2][1], p[2][2]))} :
        p \in {q \in Edges(g) \X Edges(g) : Crossing(q[1], q[2])}}

MatchingFormula(g) ==
    QuasiMatchingClauses(g) \cup PerfectClauses(g) \cup NonCrossingClauses(g)

\* NCPQMatching.matchable
Matchable(g, pol) == Dpll(MatchingFormula(g), pol)

MatchableCall ==
    /\ pc = "matchable"
    /\ \E pol \in Policies : result' = Matchable(input, pol)
    /\ pc' = "done"
    /\ UNCHANGED <<input, clauses, stack, raised, policy, engineVars>>

\* The symmetric pseudo-graph on the vertex set V whose edges and loops are E.
GraphOf(V, E) == [u \in V |-> {v \in V : CanonicalEdge(u, v) \in E}]

InitMatch ==
    /\ \E V \in SUBSET (1..MaxVertex) :
          \E E \in SUBSET {e \in V \X V : e[1] <= e[2]} : input = GraphOf(V, E)
    /\ clauses = {}
    /\ stack = <<>>
    /\ pc = "matchable"
    /\ result = "none"
    /\ raised = "none"
    /\ policy = "any"
    /\ NoEngine

SpecMatch == InitMatch /\ [][MatchableCall]_vars

\* Two chords of the circle cross when their four ends are distinct and exactly
\* one end of the second lies strictly between the ends of the first.
ChordsCross(e, f) ==
    /\ Cardinality({e[1], e[2], f[1], f[2]}) = 4
    /\ (e[1] < f[1] /\ f[1] < e[2]) # (e[1] < f[2] /\ f[2] < e[2])

\* The sets of edges and loops of g that cover every vertex of U exactly once
\* and touch no vertex outside U. The least vertex of U takes one of its edges
\* into U (itself for a loop), and the rest of U is covered likewise.
RECURSIVE Coverings(_, _)
Coverings(g, U) ==
    IF U = {} THEN {{}}
    ELSE LET u == SetMin(U)
         IN  UNION {{M \cup {<<u, v>>} : M \in Coverings(g, U \ {u, v})} :
                      v \in g[u] \cap U}

\* g has a non-crossing perfect quasi-matching.
HasMatching(g) ==
    \E M \in Coverings(g, DOMAIN g) : \A e \in M : \A f \in M : ~ChordsCross(e, f)

\* C2: matchable() returns True exactly when the pseudo-graph has a
\* non-crossing perfect quasi-matching.
C2_MatchableDecides ==
    pc = "done" => result = HasMatching(input)

\* matchable() has refused the four vertices joined by their two diagonals only.
C2_Witness ==
    /\ pc = "done"
    /\ input = <<{3}, {4}, {1}, {2}>>
    /\ result = FALSE

\* -------------------------------------------------------------- coloring.py
\* A graph is the adjacency list of ThreeColoration.__init__: a function from
\* the vertices 0 .. n-1 to the set of the entries of their lists. The
\* constraints are a function from the constrained vertices to their colors.
Colors == {1, 2, 3}

\* ThreeColoration.__init__: self._edges, a set of frozensets.
ColoringEdges(adj) == UNION {{{u, v} : v \in adj[u]} : u \in DOMAIN adj}

\* ThreeColoration._var
ColorVar(vertex, color) == 3 * vertex + color

\* ThreeColoration._formula, lines 50-65: the clauses of one vertex.
VertexClauses(u, constraints) ==
    LET color == IF u \in DOMAIN constraints THEN constraints[u] ELSE 0
    IN  IF color # 0
        THEN {{ColorVar(u, color)}}
             \cup {{Neg(ColorVar(u, other_color))} : other_color \in Colors \ {color}}
        ELSE {{ColorVar(u, 1), ColorVar(u, 2), ColorVar(u, 3)},
              {Neg(ColorVar(u, 1)), Neg(ColorVar(u, 2))},
              {Neg(ColorVar(u, 1)), Neg(ColorVar(u, 3))},
              {Neg(ColorVar(u, 2)), Neg(ColorVar(u, 3))}}

\* ThreeColoration._formula, lines 67-70: the clauses of one edge {u, v}.
EdgeClauses(e) ==
    {{Neg(ColorVar(u, color)) : u \in e} : color \in Colors}

\* ThreeColoration._formula
ColoringFormula(adj, constraints) ==
    UNION {VertexClauses(u, constraints) : u \in DOMAIN adj}
    \cup UNION {EdgeClauses(e) : e \in ColoringEdges(adj)}

\* What ThreeColoration(adj, constraints).colorable() raises. `given` is FALSE
\* when the constraints were left to their default, None: None.get fails at the
\* first vertex. `for (u, v) in self._edges` cannot unpack the frozenset of a
\* self-loop, which holds one vertex.
ColorableRaises(adj, constraints, given) ==
    IF ~given /\ DOMAIN adj # {} THEN "AttributeError"
    ELSE IF \E e \in ColoringEdges(adj) : Cardinality(e) = 1 THEN "ValueError"
    ELSE "none"

\* ThreeColoration.colorable, when nothing is raised.
Colorable(adj, constraints, pol) == Dpll(ColoringFormula(adj, constraints), pol)

ColorableCall ==
    /\ pc = "colorable"
    /\ raised' = ColorableRaises(input.adj, input.constraints, input.given)
    /\ IF raised' = "none"
       THEN \E pol \in Policies :
                result' = Colorable(input.adj, input.constraints, pol)
       ELSE result' = result
    /\ pc' = "done"
    /\ UNCHANGED <<input, clauses, stack, policy, engineVars>>

\* The graph on 0 .. n-1 whose adjacency lists hold the edges and loops E.
AdjacencyOf(n, E) == [u \in 0..(n - 1) |-> {v \in 0..(n - 1) : CanonicalEdge(u, v) \in E}]

InitColor ==
    /\ \E n \in 0..MaxColorVertices :
       \E E \in SUBSET {e \in (0..(n - 1)) \X (0..(n - 1)) : e[1] <= e[2]} :
       \E constrained \in SUBSET (0..(n - 1)) :
       \E constraints \in [constrained -> Colors] :
       \E given \in BOOLEAN :
          /\ ~given => constrained = {}
          /\ input = [adj |-> AdjacencyOf(n, E), constraints |-> constraints, given |-> given]
    /\ clauses = {}
    /\ stack = <<>>
    /\ pc = "colorable"
    /\ result = "none"
    /\ raised = "none"
    /\ policy = "any"
    /\ NoEngine

SpecColor == InitColor /\ [][ColorableCall]_vars

\* Some assignment of one color to each vertex agrees with the constraints and
\* gives the two ends of every edge different colors.
HasColoring(adj, constraints) ==
    \E coloring \in [DOMAIN adj -> Colors] :
        /\ \A u \in DOMAIN constraints : coloring[u] = constraints[u]
        /\ \A u \in DOMAIN adj : \A v \in adj[u] : coloring[u] # coloring[v]

\* C3: colorable() returns True exactly when the graph has a proper 3-coloring
\* that agrees with the constraints, also when no constraints were supplied
\* (stated for the graphs without self-loops).
C3_ColorableDecides ==
    (pc = "done" /\ \A u \in DOMAIN input.adj : u \notin input.adj[u]) =>
        /\ raised = "none"
        /\ result = HasColoring(input.adj, input.constraints)

\* colorable() is right on the inputs that supply a constraints dictionary and
\* no self-loop.
C3_ColorableDecidesGiven ==
    (pc = "done" /\ input.given /\ \A u \in DOMAIN input.adj : u \notin input.adj[u]) =>
        /\ raised = "none"
        /\ result = HasColoring(input.adj, input.constraints)

\* ----------------------------------------------------------------- utils.py
\* A coloring is a tuple of colors: position t of the source is entry t + 1.

\* colorings(n)
Colorings(n) == [1..n -> Colors]

\* color_permutations(): the six bijections of the colors.
ColorPermutations ==
    {sigma \in [Colors -> Colors] : \A a \in Colors : \A b \in Colors : sigma[a] = sigma[b] => a = b}

\* permute(coloring, sigma)
Permute(coloring, sigma) == [t \in DOMAIN coloring |-> sigma[coloring[t]]]

\* coloring_to_int(coloring): the decimal number whose digits are the colors.
RECURSIVE ColoringToInt(_)
ColoringToInt(coloring) ==
    IF coloring = <<>> THEN 0
    ELSE 10 * ColoringToInt(SubSeq(coloring, 1, Len(coloring) - 1)) + coloring[Len(coloring)]

\* min(..., key=coloring_to_int)
MinByInt(S) == CHOOSE c \in S : \A d \in S : ColoringToInt(c) <= ColoringToInt(d)

\* color_repr(coloring)
ColorRepr(coloring) == MinByInt({Permute(coloring, sigma) : sigma \in ColorPermutations})

\* -------------------------------------------- reductor.py: the coloring quotient
\* A symmetry is a list of the positions 0 .. k-1.

\* tuple(c[i] for i in sym)
ApplySymmetry(c, sym) == [t \in DOMAIN sym |-> c[sym[t] + 1]]

\* PatternReducibility.__init__, lines 56-61: color_repr_map.
ColorReprMap(k) == [c \in Colorings(k) |-> ColorRepr(c)]

\* PatternReducibility.__init__, lines 59-61: the keys of repr_map, given
\* color_repr_map.
ColorRepresentatives(color_reprs) == {c \in DOMAIN color_reprs : color_reprs[c] = c}

\* PatternReducibility.__init__, lines 64-69: repr_map, given color_repr_map.
ReprMap(color_reprs, symmetries) ==
    [c \in ColorRepresentatives(color_reprs) |->
        MinByInt({color_reprs[ApplySymmetry(c, symmetries[n])] : n \in DOMAIN symmetries})]

\* PatternReducibility.__init__, line 70: the keys of repr_to_red, given repr_map.
Representatives(reprs) == {c \in DOMAIN reprs : reprs[c] = c}

\* The constraints dictionary keyed by the positions i instead of outgoing[i].
FrontierConstraintsByPosition(outgoing, c) ==
    [v \in {t - 1 : t \in DOMAIN outgoing} |-> c[v + 1]]

\* ThreeColoration(self.line_graph, {self.outgoing[i]: c[i] for i in range(self.k)}):
\* the constraints dictionary (a later entry of a dict display replaces an
\* earlier one with the same key).
FrontierConstraints(outgoing, c) ==
    [v \in {outgoing[t] : t \in DOMAIN outgoing} |->
        c[SetMax({t \in DOMAIN outgoing : outgoing[t] = v})]]

\* PatternReducibility.__init__, lines 75-81: the first entry of a representative.
InitialEntry(pattern, c, pol) ==
    IF Colorable(pattern.line_graph, FrontierConstraints(pattern.outgoing, c), pol)
    THEN [reducible |-> TRUE, rank |-> 0, reason |-> <<"extendable">>]
    ELSE [reducible |-> FALSE, rank |-> 0 - 1, reason |-> <<>>]

\* PatternReducibility.__init__: the state of the object it leaves.
Constructed(pattern, pol) ==
    LET k == Len(pattern.outgoing)
    IN  /\ input = pattern
        /\ policy = pol
        /\ color_repr_map = ColorReprMap(k)
        /\ repr_map = ReprMap(color_repr_map, pattern.symmetries)
        /\ repr_to_red = [c \in Representatives(repr_map) |-> InitialEntry(pattern, c, pol)]
        /\ iter = 0
        /\ new = <<>>
        /\ found_changed = FALSE
        /\ found_non_reducible = FALSE
        /\ todo = {}
        /\ calls = 0
        /\ clauses = {}
        /\ stack = <<>>
        /\ result = "none"
        /\ raised = "none"

\* PatternReducibility.representative
Representative(c) == repr_map[color_repr_map[c]]

\* The permutations of the positions 0 .. k-1, as lists.
Symmetries(k) ==
    {sym \in [1..k -> 0..(k - 1)] : \A a \in 1..k : \A b \in 1..k : sym[a] = sym[b] => a = b}

Identity(k) == [t \in 1..k |-> t - 1]

\* The lists of symmetries a pattern may be given: the identity comes first.
SymmetryLists(k) ==
    {list \in UNION {[1..m -> Symmetries(k)] : m \in 1..MaxSyms} : list[1] = Identity(k)}

\* representative() is applied to a coloring c, to sigma o c o pi for a color
\* permutation sigma and a listed symmetry pi, and to its own results.
RepresentativeCall ==
    /\ pc = "idle"
    /\ \E c \in DOMAIN color_repr_map :
       \E sigma \in ColorPermutations :
       \E n \in DOMAIN input.symmetries :
          LET moved == Permute(ApplySymmetry(c, input.symmetries[n]), sigma)
              rep == Representative(c)
          IN  result' = [c |-> c,
                         moved |-> moved,
                         of_c |-> rep,
                         of_moved |-> Representative(moved),
                         color_repr |-> color_repr_map[c],
                         color_repr_twice |-> color_repr_map[color_repr_map[c]],
                         is_key |-> rep \in DOMAIN repr_to_red,
                         twice |-> Representative(rep)]
    /\ pc' = "done"
    /\ UNCHANGED <<input, clauses, stack, raised, policy, engineVars>>

\* The pattern of k outgoing vertices and no edge.
EdgelessPattern(k, symmetries) ==
    [line_graph |-> [v \in 0..(k - 1) |-> {}],
     outgoing |-> Identity(k),
     symmetries |-> symmetries]

InitQuotient ==
    /\ \E k \in 1..MaxK :
       \E symmetries \in SymmetryLists(k) :
          Constructed(EdgelessPattern(k, symmetries), [simplify |-> "min", branch |-> "min"])
    /\ pc = "idle"

SpecQuotient == InitQuotient /\ [][RepresentativeCall]_vars

\* The composition of two listed symmetries: c o (p o q) = (c o p) o q.
Compose(p, q) == [t \in DOMAIN q |-> p[q[t] + 1]]

\* The listed symmetries are closed under composition: they form a group.
IsClosed(symmetries) ==
    \A a \in DOMAIN symmetries : \A b \in DOMAIN symmetries :
        \E n \in DOMAIN symmetries : symmetries[n] = Compose(symmetries[a], symmetries[b])

\* C5 as stated: representative(sigma o c o pi) = representative(c) whenever the
\* symmetry list starts with the identity.
C5_Equivariance ==
    pc = "done" => result.of_moved = result.of_c

\* C5 amended: representative(sigma o c o pi) = representative(c) whenever the
\* symmetry list starts with the identity and is closed under composition.
C5_EquivarianceClosed ==
    (pc = "done" /\ IsClosed(input.symmetries)) => result.of_moved = result.of_c

\* representative() has been applied to a coloring moved by a symmetry other
\* than the identity, under a closed list, and the coloring is not its own
\* representative.
C5_Witness ==
    /\ pc = "done"
    /\ IsClosed(input.symmetries)
    /\ Len(input.symmetries) = 2
    /\ input.symmetries[2] # input.symmetries[1]
    /\ result.moved # result.c
    /\ result.of_c # result.c
    /\ result.of_moved = result.of_c

\* C6 as stated: color_repr and representative are idempotent and every value
\* of representative is a key of repr_to_red, whenever the symmetry list starts
\* with the identity.
C6_Idempotence ==
    pc = "done" =>
        /\ result.color_repr_twice = result.color_repr
        /\ result.twice = result.of_c
        /\ result.is_key

\* C6 amended: the same, whenever the symmetry list starts with the identity
\* and is closed under composition.
C6_IdempotenceClosed ==
    (pc = "done" /\ IsClosed(input.symmetries)) =>
        /\ result.color_repr_twice = result.color_repr
        /\ result.twice = result.of_c
        /\ result.is_key

\* representative() has been applied twice to a coloring that is neither its
\* own color-representative nor its own representative, under a closed list.
C6_Witness ==
    /\ pc = "done"
    /\ IsClosed(input.symmetries)
    /\ result.color_repr # result.c
    /\ result.of_c # result.color_repr
    /\ result.twice = result.of_c
    /\ result.is_key

\* ------------------------------------------ reductor.py: the fixed-point engine
\* swap(indices) that turns the first color of the pair into the second and
\* leaves the second alone.
SwapOneWay(c, indices, color_pair) ==
    [t \in DOMAIN c |->
        IF (t - 1) \notin indices THEN c[t]
        ELSE IF c[t] = color_pair[1] THEN color_pair[2]
        ELSE c[t]]

\* make_aux_graph, lines 103-117: swap(indices).
Swap(c, indices, color_pair) ==
    [t \in DOMAIN c |->
        IF (t - 1) \notin indices THEN c[t]
        ELSE IF c[t] = color_pair[1] THEN color_pair[2]
        ELSE IF c[t] = color_pair[2] THEN color_pair[1]
        ELSE c[t]]

\* make_aux_graph, lines 120-124: the vertices of g.
AuxVertices(c, color_pair) ==
    {t \in 0..(Len(c) - 1) : c[t + 1] \in {color_pair[1], color_pair[2]}}

\* make_aux_graph, line 129: the keys of repr_to_red it reads.
AuxLookups(c, color_pair) ==
    LET V == AuxVertices(c, color_pair)
    IN  {Representative(Swap(c, {e[1], e[2]}, color_pair)) : e \in V \X V}

\* make_aux_graph: the pseudo-graph it hands to NCPQMatching, read off the
\* rank map red; every key it reads is a key of red.
MakeAuxGraph(c, color_pair, red) ==
    LET V == AuxVertices(c, color_pair)
    IN  [u \in V |->
            {v \in V : ~red[Representative(Swap(c, {u, v}, color_pair))].reducible}]

\* is_coloring_reducible, line 145: color1, color2 = {1, 2, 3} - {color}.
\* CPython iterates a set of small integers in increasing order.
ColorPair(color) ==
    LET others == Colors \ {color} IN <<SetMin(others), SetMax(others)>>

\* tuple(Color(color) for _ in range(self.k))
ConstantColoring(k, color) == [t \in 1..k |-> color]

\* is_coloring_reducible, lines 143-151: the loop from `color` on. A key that
\* make_aux_graph does not find in red ends the call with KeyError.
RECURSIVE TryColors(_, _, _, _)
TryColors(c, color, red, pol) ==
    IF color > 3
    THEN [reducible |-> FALSE, color_pair |-> <<>>, raised |-> "none"]
    ELSE IF c = ConstantColoring(Len(c), color)
    THEN TryColors(c, color + 1, red, pol)
    ELSE IF ~(AuxLookups(c, ColorPair(color)) \subseteq DOMAIN red)
    THEN [reducible |-> FALSE, color_pair |-> <<>>, raised |-> "KeyError"]
    ELSE IF ~Matchable(MakeAuxGraph(c, ColorPair(color), red), pol)
    THEN [reducible |-> TRUE, color_pair |-> ColorPair(color), raised |-> "none"]
    ELSE TryColors(c, color + 1, red, pol)

\* PatternReducibility.is_coloring_reducible
IsColoringReducible(c, red, pol) == TryColors(c, 1, red, pol)

\* is_pattern_reducible, lines 180-183, with the rank taken after i += 1.
RegisterAfterIncrement(red, found, i) ==
    [d \in DOMAIN red |->
        IF \E n \in DOMAIN found : found[n][1] = d
        THEN LET color_pair == found[CHOOSE n \in DOMAIN found : found[n][1] = d][2]
             IN  [reducible |-> TRUE,
                  rank |-> i + 1,
                  reason |-> <<"reducible with color pair", color_pair[1], color_pair[2]>>]
        ELSE red[d]]

\* is_pattern_reducible, lines 180-183: the entries of `new` get rank i.
Register(red, found, i) ==
    [d \in DOMAIN red |->
        IF \E n \in DOMAIN found : found[n][1] = d
        THEN LET color_pair == found[CHOOSE n \in DOMAIN found : found[n][1] = d][2]
             IN  [reducible |-> TRUE,
                  rank |-> i,
                  reason |-> <<"reducible with color pair", color_pair[1], color_pair[2]>>]
        ELSE red[d]]

\* is_pattern_reducible, line 203, returning the flag itself.
VerdictNotNegated(flag) == flag

\* is_pattern_reducible, line 203: return not found_non_reducible.
Verdict(flag) == ~flag

\* is_pattern_reducible, lines 159-160. The locals `new` and
\* `found_non_reducible` are unbound until the first pass of the loop binds them.
IsPatternReducibleCall ==
    /\ pc \in {"idle", "returned"}
    /\ calls < MaxCalls
    /\ found_changed' = TRUE
    /\ iter' = 1
    /\ new' = <<>>
    /\ found_non_reducible' = FALSE
    /\ result' = "none"
    /\ pc' = "while"
    /\ UNCHANGED <<input, clauses, stack, raised, policy, quotientVars, repr_to_red, todo, calls>>

\* is_pattern_reducible, line 164: the test of the while loop; lines 165-169
\* when it holds, line 203 when it fails.
WhileTest ==
    /\ pc = "while"
    /\ IF found_changed
       THEN /\ new' = <<>>
            /\ found_non_reducible' = FALSE
            /\ todo' = DOMAIN repr_to_red
            /\ pc' = "for"
            /\ UNCHANGED <<result, calls>>
       ELSE /\ result' = Verdict(found_non_reducible)
            /\ calls' = calls + 1
            /\ pc' = "returned"
            /\ UNCHANGED <<new, found_non_reducible, todo>>
    /\ UNCHANGED <<input, clauses, stack, raised, policy, quotientVars, repr_to_red,
                   iter, found_changed>>

\* The body of the for loop registering a newfound representative right away.
ForBodyRegistersAtOnce ==
    /\ pc = "for"
    /\ todo # {}
    /\ LET c == MinByInt(todo)
       IN  /\ todo' = todo \ {c}
           /\ IF repr_to_red[c].reducible
              THEN UNCHANGED <<new, found_non_reducible, raised, pc, repr_to_red>>
              ELSE LET res == IsColoringReducible(c, repr_to_red, policy)
                   IN  IF res.raised # "none"
                       THEN /\ raised' = res.raised
                            /\ pc' = "raised"
                            /\ UNCHANGED <<new, found_non_reducible, repr_to_red>>
                       ELSE IF res.reducible
                       THEN /\ new' = Append(new, <<c, res.color_pair>>)
                            /\ repr_to_red' =
                                  Register(repr_to_red, <<<<c, res.color_pair>>>>, iter)
                            /\ UNCHANGED <<found_non_reducible, raised, pc>>
                       ELSE /\ found_non_reducible' = TRUE
                            /\ UNCHANGED <<new, raised, pc, repr_to_red>>
    /\ UNCHANGED <<input, clauses, stack, result, policy, quotientVars,
                   iter, found_changed, calls>>

\* is_pattern_reducible, lines 169-178: the body of the for loop on the next
\* key. The keys of repr_to_red come in the order colorings() produced them,
\* which is the order of coloring_to_int.
ForBody ==
    /\ pc = "for"
    /\ todo # {}
    /\ LET c == MinByInt(todo)
       IN  /\ todo' = todo \ {c}
           /\ IF repr_to_red[c].reducible
              THEN UNCHANGED <<new, found_non_reducible, raised, pc>>
              ELSE LET res == IsColoringReducible(c, repr_to_red, policy)
                   IN  IF res.raised # "none"
                       THEN /\ raised' = res.raised
                            /\ pc' = "raised"
                            /\ UNCHANGED <<new, found_non_reducible>>
                       ELSE IF res.reducible
                       THEN /\ new' = Append(new, <<c, res.color_pair>>)
                            /\ UNCHANGED <<found_non_reducible, raised, pc>>
                       ELSE /\ found_non_reducible' = TRUE
                            /\ UNCHANGED <<new, raised, pc>>
    /\ UNCHANGED <<input, clauses, stack, result, policy, quotientVars, repr_to_red,
                   iter, found_changed, calls>>

\* is_pattern_reducible, lines 179-184: the end of one pass of the while loop.
\* The end of a pass that takes a single find for no find.
ForEndStopsEarly ==
    /\ pc = "for"
    /\ todo = {}
    /\ found_changed' = (Len(new) > 1)
    /\ repr_to_red' = Register(repr_to_red, new, iter)
    /\ iter' = iter + 1
    /\ pc' = "while"
    /\ UNCHANGED <<input, clauses, stack, result, raised, policy, quotientVars,
                   new, found_non_reducible, todo, calls>>

ForEnd ==
    /\ pc = "for"
    /\ todo = {}
    /\ found_changed' = (new # <<>>)
    /\ repr_to_red' = Register(repr_to_red, new, iter)
    /\ iter' = iter + 1
    /\ pc' = "while"
    /\ UNCHANGED <<input, clauses, stack, result, raised, policy, quotientVars,
                   new, found_non_reducible, todo, calls>>

IsPatternReducibleStep ==
    \/ IsPatternReducibleCall
    \/ WhileTest
    \/ ForBody
    \/ ForEnd

\* A line graph given as a Python list of adjacency lists: entry v + 1 of the
\* tuple is the list of vertex v.
ListGraph(lists) == [v \in 0..(Len(lists) - 1) |-> lists[v + 1]]

Pattern(line_graph, outgoing, symmetries) ==
    [line_graph |-> ListGraph(line_graph), outgoing |-> outgoing, symmetries |-> symmetries]

\* patterns.py, line 4
P22 == Pattern(<<{1}, {0, 2}, {1}>>, <<0, 2>>, <<<<0, 1>>, <<1, 0>>>>)

\* patterns.py, line 7
P232 ==
    Pattern(<<{1}, {0, 2, 3}, {1, 3}, {1, 2, 4}, {3}>>, <<0, 2, 4>>,
            <<<<0, 1, 2>>, <<2, 1, 0>>>>)

\* Four outgoing vertices, one edge, the four rotations: colorings of rank 2.
RotationPattern ==
    Pattern(<<{2}, {}, {0}, {}>>, <<1, 2, 0, 3>>,
            <<<<0, 1, 2, 3>>, <<1, 2, 3, 0>>, <<2, 3, 0, 1>>, <<3, 0, 1, 2>>>>)

\* Four outgoing vertices around an inner one: colorings of rank 3 and
\* colorings that stay unknown.
HubPattern ==
    Pattern(<<{3, 4}, {4}, {}, {0, 4}, {0, 1, 3}>>, <<0, 1, 2, 3>>,
            <<<<0, 1, 2, 3>>, <<2, 3, 0, 1>>>>)

\* A triangle of outgoing vertices with one rotation listed and not its square.
OpenRotationPattern ==
    Pattern(<<{1, 2}, {0, 2}, {0, 1}>>, <<0, 1, 2>>, <<<<0, 1, 2>>, <<2, 0, 1>>>>)

Reversal(k) == [t \in 1..k |-> k - t]

\* The patterns on at most MaxLineVertices vertices, all of them outgoing, in
\* the order of their numbers, with and without the reversal as a symmetry.
SmallPatterns ==
    UNION {{[line_graph |-> AdjacencyOf(n, E), outgoing |-> Identity(n), symmetries |-> syms] :
                E \in SUBSET {e \in (0..(n - 1)) \X (0..(n - 1)) : e[1] < e[2]},
                syms \in {<<Identity(n)>>, <<Identity(n), Reversal(n)>>}} :
            n \in 1..MaxLineVertices}

Patterns == {P22, P232, RotationPattern, HubPattern, OpenRotationPattern} \cup SmallPatterns

InitPattern ==
    /\ \E pattern \in Patterns : \E pol \in Policies : Constructed(pattern, pol)
    /\ pc = "idle"

SpecPattern == InitPattern /\ [][IsPatternReducibleStep]_vars

\* The rank map that knows as reducible exactly the keys of rank 0 .. r-1.
RanksBelow(r) ==
    [d \in DOMAIN repr_to_red |->
        [reducible |-> repr_to_red[d].rank >= 0 /\ repr_to_red[d].rank < r]]

\* The keys of unknown rank: reducible = False, rank = -1.
Unknown == {d \in DOMAIN repr_to_red : ~repr_to_red[d].reducible /\ repr_to_red[d].rank = 0 - 1}

\* C4: is_pattern_reducible returns True exactly when no representative of the
\* rank map is left unknown, and False exactly when one is.
C4_VerdictIffNoneUnknown ==
    pc = "returned" =>
        /\ result \in BOOLEAN
        /\ result = TRUE <=> Unknown = {}
        /\ result = FALSE <=> Unknown # {}
        /\ \A d \in DOMAIN repr_to_red : repr_to_red[d].reducible <=> d \notin Unknown

\* is_pattern_reducible has returned False after four passes that left a
\* representative unknown.
C4_Witness ==
    /\ pc = "returned"
    /\ result = FALSE
    /\ Unknown # {}
    /\ iter = 5

\* C7: once is_pattern_reducible has returned, the auxiliary graph of every
\* representative of rank r >= 1, for its recorded color pair, has no
\* non-crossing perfect quasi-matching when built against the ranks below r,
\* and has one when built against the ranks below r - 1.
C7_RankIsStrict ==
    pc = "returned" =>
        \A c \in DOMAIN repr_to_red :
            repr_to_red[c].rank >= 1 =>
                LET r == repr_to_red[c].rank
                    color_pair == <<repr_to_red[c].reason[2], repr_to_red[c].reason[3]>>
                IN  /\ ~HasMatching(MakeAuxGraph(c, color_pair, RanksBelow(r)))
                    /\ HasMatching(MakeAuxGraph(c, color_pair, RanksBelow(r - 1)))

\* is_pattern_reducible has returned with a representative of rank 3.
C7_Witness ==
    /\ pc = "returned"
    /\ \E c \in DOMAIN repr_to_red : repr_to_red[c].rank = 3

\* C8: a rank is 0 or unknown at construction; a step changes a rank only from
\* unknown to the number of the running pass, at the end of that pass; a finite
\* rank is never changed.
C8_RankSetOnce ==
    /\ \A c \in DOMAIN repr_to_red : repr_to_red[c].rank \in {0, 0 - 1}
    /\ [][/\ DOMAIN repr_to_red' = DOMAIN repr_to_red
          /\ \A c \in DOMAIN repr_to_red :
                /\ repr_to_red[c].rank >= 0 => repr_to_red'[c] = repr_to_red[c]
                /\ repr_to_red'[c].rank # repr_to_red[c].rank =>
                      /\ repr_to_red[c].rank = 0 - 1
                      /\ repr_to_red'[c].rank = iter
                      /\ iter >= 1
                      /\ pc = "for"
                      /\ todo = {}]_vars

\* A second call of is_pattern_reducible has run its pass over a rank map that
\* holds ranks 1, 2 and 3.
C8_Witness ==
    /\ calls = 1
    /\ pc = "while"
    /\ iter = 2
    /\ \A r \in 1..3 : \E c \in DOMAIN repr_to_red : repr_to_red[c].rank = r

\* C9: is_pattern_reducible returns True for p_22 and for p_232.
C9_CatalogVerdicts ==
    (pc = "returned" /\ input \in {P22, P232}) => result = TRUE

\* is_pattern_reducible has returned for p_232 after ranking a representative 1.
C9_Witness ==
    /\ pc = "returned"
    /\ input = P232
    /\ result = TRUE
    /\ \E c \in DOMAIN repr_to_red : repr_to_red[c].rank = 1

\* The rank map that knows as reducible exactly the keys of finite rank.
FiniteRanks ==
    [d \in DOMAIN repr_to_red |-> [reducible |-> repr_to_red[d].rank >= 0]]

ColorIsTried(c, color, red, pol) ==
    /\ c # ConstantColoring(Len(c), color)
    /\ \A earlier \in 1..(color - 1) :
          \/ c = ConstantColoring(Len(c), earlier)
          \/ /\ AuxLookups(c, ColorPair(earlier)) \subseteq DOMAIN red
             /\ Matchable(MakeAuxGraph(c, ColorPair(earlier), red), pol)

\* NCPQMatching._var over the edges of g: the literal of every edge.
EdgeVars(g) == [e \in Edges(g) |-> EdgeVar(g, e[1], e[2])]

\* make_aux_graph(c, color_pair) and matchable() on the graph it returns, lines
\* 147-148 of is_coloring_reducible; a key make_aux_graph does not find in
\* repr_to_red ends it with KeyError.
AuxGraphBuilt(c, color_pair) ==
    IF AuxLookups(c, color_pair) \subseteq DOMAIN repr_to_red
    THEN LET g == MakeAuxGraph(c, color_pair, repr_to_red)
         IN  /\ result' = [c |-> c,
                           color_pair |-> color_pair,
                           graph |-> g,
                           ids |-> EdgeVars(g),
                           matchable |-> Matchable(g, policy)]
             /\ raised' = raised
    ELSE /\ result' = result
         /\ raised' = "KeyError"

\* One call of make_aux_graph, made by is_coloring_reducible for the key the
\* scan is at and one of the colors its loop gets to. The run is followed no
\* further.
MakeAuxGraphCall ==
    /\ pc = "for"
    /\ todo # {}
    /\ \E c \in {MinByInt(todo)} :
       \E color \in Colors :
          /\ ~repr_to_red[c].reducible
          /\ ColorIsTried(c, color, repr_to_red, policy)
          /\ AuxGraphBuilt(c, ColorPair(color))
    /\ pc' = "aux"
    /\ UNCHANGED <<input, clauses, stack, policy, engineVars>>

AuxStep ==
    \/ IsPatternReducibleStep
    \/ MakeAuxGraphCall

SpecAux == InitPattern /\ [][AuxStep]_vars

\* C11: _var gives every edge and loop of an auxiliary graph a strictly positive
\* literal, different from the literal of every other edge.
C11_VarPositiveUnique ==
    (pc = "aux" /\ raised = "none") =>
        /\ \A e \in DOMAIN result.ids : result.ids[e] > 0
        /\ \A e \in DOMAIN result.ids : \A f \in DOMAIN result.ids :
              result.ids[e] = result.ids[f] => e = f

\* The literals of an auxiliary graph are different from one another and none
\* is negative; only the loop at vertex 0 gets 0.
C11_VarUniqueNotNegative ==
    (pc = "aux" /\ raised = "none") =>
        /\ \A e \in DOMAIN result.ids : result.ids[e] >= 0
        /\ \A e \in DOMAIN result.ids : result.ids[e] = 0 <=> e = <<0, 0>>
        /\ \A e \in DOMAIN result.ids : \A f \in DOMAIN result.ids :
              result.ids[e] = result.ids[f] => e = f

\* The coloring c with the colors i and j exchanged at the given positions.
Toggled(c, positions, i, j) ==
    [t \in 1..Len(c) |->
        IF (t - 1) \in positions /\ c[t] = i THEN j
        ELSE IF (t - 1) \in positions /\ c[t] = j THEN i
        ELSE c[t]]

\* The representative of a coloring is known reducible.
KnownReducible(c) == repr_to_red[Representative(c)].reducible

\* C12: the graph make_aux_graph returns for c and (i, j) has the positions of c
\* colored i or j as its vertices, is symmetric, joins u and v exactly when c
\* toggled at u and v is not known reducible, and has a loop at u exactly when
\* c toggled at u alone is not known reducible.
C12_AuxGraphShape ==
    (pc = "aux" /\ raised = "none") =>
        LET c == result.c
            i == result.color_pair[1]
            j == result.color_pair[2]
            g == result.graph
        IN  /\ DOMAIN g = {t \in 0..(Len(c) - 1) : c[t + 1] \in {i, j}}
            /\ \A u \in DOMAIN g : g[u] \subseteq DOMAIN g
            /\ \A u \in DOMAIN g : \A v \in DOMAIN g : v \in g[u] <=> u \in g[v]
            /\ \A u \in DOMAIN g : \A v \in DOMAIN g \ {u} :
                  v \in g[u] <=> ~KnownReducible(Toggled(c, {u, v}, i, j))
            /\ \A u \in DOMAIN g : u \in g[u] <=> ~KnownReducible(Toggled(c, {u}, i, j))

\* make_aux_graph has returned, in a second pass, a graph that leaves a position
\* of c out, joins two vertices and leaves two others apart.
C12_Witness ==
    /\ pc = "aux"
    /\ raised = "none"
    /\ iter = 2
    /\ DOMAIN result.graph # 0..(Len(result.c) - 1)
    /\ \E u \in DOMAIN result.graph : \E v \in DOMAIN result.graph \ {u} :
          v \in result.graph[u]
    /\ \E u \in DOMAIN result.graph : \E v \in DOMAIN result.graph \ {u} :
          v \notin result.graph[u]

\* C14: matchable() on a graph make_aux_graph built, vertex 0 and its loop
\* included, returns True exactly when the graph has a non-crossing perfect
\* quasi-matching.
C14_AuxMatchableDecides ==
    (pc = "aux" /\ raised = "none") => result.matchable = HasMatching(result.graph)

\* matchable() has accepted an auxiliary graph in which the loop at vertex 0,
\* coded as literal 0, shares vertex 0 with another edge.
C14_Witness ==
    /\ pc = "aux"
    /\ raised = "none"
    /\ <<0, 0>> \in DOMAIN result.ids
    /\ result.ids[<<0, 0>>] = 0
    /\ result.graph[0] # {0}
    /\ result.matchable = TRUE

\* The symmetric pseudo-graphs on the vertices 0 .. MaxVertex - 1, a superset of
\* the graphs make_aux_graph builds for MaxVertex outgoing vertices.
InitMatchFromZero ==
    /\ \E V \in SUBSET (0..(MaxVertex - 1)) :
          \E E \in SUBSET {e \in V \X V : e[1] <= e[2]} : input = GraphOf(V, E)
    /\ clauses = {}
    /\ stack = <<>>
    /\ pc = "matchable"
    /\ result = "none"
    /\ raised = "none"
    /\ policy = "any"
    /\ NoEngine

SpecMatchFromZero == InitMatchFromZero /\ [][MatchableCall]_vars

\* matchable() decides every symmetric pseudo-graph numbered from 0.
C14_MatchableDecidesFromZero ==
    pc = "done" => result = HasMatching(input)

\* ------------------------------------------------ the engine, run to its end
\* Inside the loop the interpreter goes on: the program point, which is pc and
\* the keys the for loop has still to visit, moves.
LoopAdvances ==
    /\ pc \in {"while", "for"}
    /\ pc' \in {"while", "for", "returned", "raised"}
    /\ todo' \in SUBSET todo

SpecPatternFair == SpecPattern /\ WF_<<pc, todo>>(LoopAdvances)

\* The representatives left unknown at construction: those whose rank is not 0.
UnknownAtConstruction == {d \in DOMAIN repr_to_red : repr_to_red[d].rank # 0}

\* The passes of the loop are bounded, a pass that is not the last ranks an
\* unknown representative, and the last pass tests every unknown representative
\* and changes nothing.
PassesAreBounded ==
    /\ [](pc = "for" => iter <= Cardinality(UnknownAtConstruction) + 1)
    /\ []((pc = "for" /\ todo = {}) =>
             (found_non_reducible <=>
                 \E c \in Unknown : \A n \in DOMAIN new : new[n][1] # c))
    /\ [][(pc = "for" /\ pc' = "while") =>
             IF found_changed'
             THEN \E c \in Unknown : repr_to_red'[c].rank = iter
             ELSE repr_to_red' = repr_to_red]_vars

\* C13: the loop of is_pattern_reducible always comes to its end and the call
\* returns; every pass but the last ranks an unknown representative, so there
\* are at most (representatives unknown at construction) + 1 passes, and the
\* last pass tests every unknown representative and changes nothing.
C13_LoopTerminates ==
    /\ [](raised = "none")
    /\ PassesAreBounded
    /\ (pc = "while") ~> (pc = "returned")

\* The same for the patterns whose symmetry list is closed under composition.
C13_LoopTerminatesClosed ==
    /\ [](IsClosed(input.symmetries) => raised = "none")
    /\ PassesAreBounded
    /\ (pc = "while" /\ IsClosed(input.symmetries)) ~> (pc = "returned")

\* ------------------------------------------------------- calling it again
\* C15: once is_pattern_reducible has returned, every later call on the same
\* instance returns the same verdict, and no later call changes the reducible
\* flag, the rank or the reason of any representative.
C15_RepeatedCallsAgree ==
    /\ \A v \in BOOLEAN :
          []((pc = "returned" /\ result = v) => [](pc = "returned" => result = v))
    /\ [][calls >= 1 => repr_to_red' = repr_to_red]_vars

\* A second call has returned on a pattern whose first call ran several passes
\* and left representatives unknown.
C15_Witness ==
    /\ pc = "returned"
    /\ calls >= 2
    /\ Unknown # {}
    /\ \E d \in DOMAIN repr_to_red : repr_to_red[d].rank >= 2

====
